---- MODULE Spec2Model ----
(***************************************************************************)
(* Model of the Dashboard component                                        *)
(* (superset/assets/src/dashboard/components/Dashboard.jsx).               *)
(*                                                                         *)
(* The component is driven by its host framework: it is constructed, then  *)
(* mounted, and then receives a series of props updates.  Each update runs *)
(* componentWillReceiveProps(nextProps) against the old props, commits the *)
(* new props and runs componentDidUpdate().  The calls the component makes *)
(* on props.actions and on window are recorded in log variables.           *)
(***************************************************************************)
EXTENDS Integers, Sequences, FiniteSets, TLC

VARIABLES
    mounted,         \* componentDidMount has run
    crashed,         \* a lifecycle method threw (the host unmounts the tree)
    props,           \* this.props
    appliedFilters,  \* this.appliedFilters
    listeners,       \* window's 'beforeunload' listener list
    logEvents,       \* actions.logEvent calls, whole lifetime
    attached,        \* actions.addSliceToDashboard calls of the last step
    detached,        \* actions.removeSliceFromDashboard calls of the last step
    queries,         \* actions.triggerQuery calls of the last step
    last             \* what the last step was and the state it started from

vars == <<mounted, crashed, props, appliedFilters, listeners, logEvents,
          attached, detached, queries, last>>

----------------------------------------------------------------------------
(* Bounds of the model *)

MaxNodes == 2     \* a layout has at most MaxNodes chart nodes
MaxImmune == 1    \* filterImmuneSlices holds at most MaxImmune chart ids

ChartIds == {1, 2, 3}
NodeIds == 1..MaxNodes
FilterKeyNumbers == {1, 10}   \* filter "1" belongs to chart 1, "10" to no chart
Fields == {"region", "country"}
ValueLists == {<<"US">>}

----------------------------------------------------------------------------
(* JavaScript values *)

Null == "<null>"
UnloadHandler == "Dashboard.unload"
LOG_ACTIONS_MOUNT_DASHBOARD == "mount_dashboard"

Range(s) == {s[i] : i \in DOMAIN s}

Digits == <<"0", "1", "2", "3", "4", "5", "6", "7", "8", "9">>

\* String(n) for a non-negative integer: its decimal digits
RECURSIVE String(_)
String(n) ==
    IF n < 10 THEN Digits[n + 1]
    ELSE String(n \div 10) \o Digits[(n % 10) + 1]

\* !!x for a string or null
Truthy(x) == x # Null /\ x # ""

\* The integer-like property names of the model and the index each denotes
PropertyNames == [n \in FilterKeyNumbers \cup ChartIds |-> String(n)]

ArrayIndex(k) == CHOOSE n \in DOMAIN PropertyNames : PropertyNames[n] = k

\* Object.keys of an object whose property names are all integer-like:
\* ascending numeric order
ObjectKeys(obj) ==
    LET index == [k \in DOMAIN obj |-> ArrayIndex(k)]
        RECURSIVE Asc(_)
        Asc(S) ==
            IF S = {} THEN <<>>
            ELSE LET m == CHOOSE k \in S : \A j \in S : index[k] <= index[j]
                 IN  <<m>> \o Asc(S \ {m})
    IN  Asc(DOMAIN obj)

\* A filter object ({region: ["US"], ...}) is the sequence of its properties
\* in insertion order; its names are not integer-like, so Object.keys
\* returns them in that order.
FieldNames(fobj) == [i \in DOMAIN fobj |-> fobj[i].name]

FieldValue(fobj, name) ==
    fobj[CHOOSE i \in DOMAIN fobj : fobj[i].name = name].values

\* Array.prototype.includes
Includes(arr, x) == \E i \in DOMAIN arr : arr[i] = x

\* safeStringify of a filters object: JSON text, properties in Object.keys
\* order (the values hold no cycles, so nothing is replaced)
RECURSIVE JoinStrings(_, _)
JoinStrings(strs, sep) ==
    IF Len(strs) = 0 THEN ""
    ELSE IF Len(strs) = 1 THEN strs[1]
    ELSE strs[1] \o sep \o JoinStrings(Tail(strs), sep)

Quote(str) == "\"" \o str \o "\""

StringifyArray(arr) ==
    "[" \o JoinStrings([i \in DOMAIN arr |-> Quote(arr[i])], ",") \o "]"

StringifyFilterObject(fobj) ==
    "{" \o JoinStrings([i \in DOMAIN fobj |->
                Quote(fobj[i].name) \o ":" \o StringifyArray(fobj[i].values)],
            ",") \o "}"

safeStringify(filters) ==
    LET keys == ObjectKeys(filters)
    IN  "{" \o JoinStrings([i \in DOMAIN keys |->
                Quote(keys[i]) \o ":" \o StringifyFilterObject(filters[keys[i]])],
            ",") \o "}"

\* areObjectsEqual of two filter objects: deep structural equality, the
\* order of the properties does not count
areObjectsEqual(a, b) ==
    /\ Range(FieldNames(a)) = Range(FieldNames(b))
    /\ \A name \in Range(FieldNames(a)) : FieldValue(a, name) = FieldValue(b, name)

----------------------------------------------------------------------------
(* Layouts *)

\* A layout maps node ids to node descriptors; every node here holds a chart
LayoutNode(n, c) == [id |-> n, type |-> "CHART", meta |-> [chartId |-> c]]

\* Object.values of the layout, in node order
LayoutValues(layout) ==
    LET RECURSIVE Asc(_)
        Asc(S) ==
            IF S = {} THEN <<>>
            ELSE LET m == CHOOSE k \in S : \A j \in S : k <= j
                 IN  <<layout[m]>> \o Asc(S \ {m})
    IN  Asc(DOMAIN layout)

getChartIdsFromLayout(layout) ==
    LET nodes == LayoutValues(layout)
    IN  [i \in DOMAIN nodes |-> nodes[i].meta.chartId]

getLayoutComponentFromChartId(layout, chartId) ==
    layout[CHOOSE n \in DOMAIN layout : layout[n].meta.chartId = chartId]

----------------------------------------------------------------------------
(* Dashboard *)

\* Dashboard.onBeforeUnload (static); window keeps one entry per listener
AddEventListener(ls, cb) == IF Includes(ls, cb) THEN ls ELSE Append(ls, cb)

RemoveEventListener(ls, cb) ==
    LET Other(x) == x # cb IN SelectSeq(ls, Other)

\* (variant: the else branch of line 72 left out)
onBeforeUnloadNeverRemoves(ls, hasChanged) ==
    IF hasChanged THEN AddEventListener(ls, UnloadHandler) ELSE ls
onBeforeUnload(ls, hasChanged) ==
    IF hasChanged THEN AddEventListener(ls, UnloadHandler)
    ELSE RemoveEventListener(ls, UnloadHandler)

\* componentWillReceiveProps: the add and remove calls it makes
\* (variant: currentChartIds read from an object that holds no layout, so
\* that it is empty)
componentWillReceivePropsNoCurrentIds(thisProps, nextProps) ==
    LET nextChartIds == getChartIdsFromLayout(nextProps.layout)
    IN  IF 0 < Len(nextChartIds)
        THEN [added |-> [i \in DOMAIN nextChartIds |->
                            <<nextChartIds[i],
                              getLayoutComponentFromChartId(nextProps.layout,
                                                            nextChartIds[i])>>],
              removed |-> <<>>]
        ELSE [added |-> <<>>, removed |-> <<>>]
\* (variant: the two differences taken without the length tests of lines 96
\* and 106)
componentWillReceivePropsBothDiffs(thisProps, nextProps) ==
    LET currentChartIds == getChartIdsFromLayout(thisProps.layout)
        nextChartIds == getChartIdsFromLayout(nextProps.layout)
        IsNew(key) == ~Includes(currentChartIds, key)
        IsRemoved(key) == ~Includes(nextChartIds, key)
        newChartIds == SelectSeq(nextChartIds, IsNew)
        removedChartIds == SelectSeq(currentChartIds, IsRemoved)
    IN  [added |-> [i \in DOMAIN newChartIds |->
                       <<newChartIds[i],
                         getLayoutComponentFromChartId(nextProps.layout,
                                                       newChartIds[i])>>],
         removed |-> [i \in DOMAIN removedChartIds |-> <<removedChartIds[i]>>]]
componentWillReceiveProps(thisProps, nextProps) ==
    LET currentChartIds == getChartIdsFromLayout(thisProps.layout)
        nextChartIds == getChartIdsFromLayout(nextProps.layout)
        IsNew(key) == ~Includes(currentChartIds, key)
        IsRemoved(key) == ~Includes(nextChartIds, key)
        newChartIds == SelectSeq(nextChartIds, IsNew)
        removedChartIds == SelectSeq(currentChartIds, IsRemoved)
    IN  IF Len(currentChartIds) < Len(nextChartIds)
        THEN [added |-> [i \in DOMAIN newChartIds |->
                            <<newChartIds[i],
                              getLayoutComponentFromChartId(nextProps.layout,
                                                            newChartIds[i])>>],
              removed |-> <<>>]
        ELSE IF Len(currentChartIds) > Len(nextChartIds)
        THEN [added |-> <<>>,
              removed |-> [i \in DOMAIN removedChartIds |-> <<removedChartIds[i]>>]]
        ELSE [added |-> <<>>, removed |-> <<>>]

\* getAllCharts: Object.values(props.charts), chart ids ascending
getAllCharts(charts) ==
    LET keys == ObjectKeys(charts)
    IN  [i \in DOMAIN keys |-> charts[keys[i]]]

\* The test of lines 181-186: the changed filter names no field, or names a
\* field the chart is not immune to
\* (variant: every in place of some)
HasFilterableFieldEvery(currentFilteredNames, filterImmuneSliceFieldsNames) ==
    LET NotImmune(name) == ~Includes(filterImmuneSliceFieldsNames, name)
    IN  \/ Len(currentFilteredNames) = 0
        \/ \A i \in DOMAIN currentFilteredNames : NotImmune(currentFilteredNames[i])
HasFilterableField(currentFilteredNames, filterImmuneSliceFieldsNames) ==
    LET NotImmune(name) == ~Includes(filterImmuneSliceFieldsNames, name)
    IN  \/ Len(currentFilteredNames) = 0
        \/ \E i \in DOMAIN currentFilteredNames : NotImmune(currentFilteredNames[i])

\* refreshExcept: the triggerQuery calls it makes, and whether it threw a
\* TypeError (a property read or method call on undefined) before it ended
\* (variant: the field names of every key of the filters are compared, not
\* only those of filterKey)
refreshExceptEveryKey(thisProps, filterKey) ==
    LET filters == thisProps.filters
        keys == ObjectKeys(filters)
        RECURSIVE NamesFrom(_)
        NamesFrom(i) ==
            IF i > Len(keys) THEN <<>>
            ELSE FieldNames(filters[keys[i]]) \o NamesFrom(i + 1)
        currentFilteredNames == NamesFrom(1)
        metadata == thisProps.dashboardInfo.metadata
        charts == getAllCharts(thisProps.charts)
        RECURSIVE ForEach(_, _)
        ForEach(i, calls) ==
            IF i > Len(charts) THEN [calls |-> calls, threw |-> FALSE]
            ELSE
            LET chart == charts[i] IN
            IF String(chart.id) = filterKey THEN ForEach(i + 1, calls)
            ELSE IF "filterImmuneSlices" \notin DOMAIN metadata
            THEN [calls |-> calls, threw |-> TRUE]
            ELSE IF Includes(metadata.filterImmuneSlices, chart.id)
            THEN ForEach(i + 1, calls)
            ELSE IF "filterImmuneSliceFields" \notin DOMAIN metadata
            THEN [calls |-> calls, threw |-> TRUE]
            ELSE
            LET filterImmuneSliceFields == metadata.filterImmuneSliceFields
                filterImmuneSliceFieldsNames ==
                    IF String(chart.id) \in DOMAIN filterImmuneSliceFields
                    THEN filterImmuneSliceFields[String(chart.id)]
                    ELSE <<>>
            IN  IF HasFilterableField(currentFilteredNames,
                                      filterImmuneSliceFieldsNames)
                THEN ForEach(i + 1, Append(calls, <<TRUE, chart.id>>))
                ELSE ForEach(i + 1, calls)
    IN  ForEach(1, <<>>)
refreshExcept(thisProps, filterKey) ==
    LET filters == thisProps.filters
        currentFilteredNames ==
            IF Truthy(filterKey) /\ filterKey \in DOMAIN filters
            THEN FieldNames(filters[filterKey])
            ELSE <<>>
        metadata == thisProps.dashboardInfo.metadata
        charts == getAllCharts(thisProps.charts)
        RECURSIVE ForEach(_, _)
        ForEach(i, calls) ==
            IF i > Len(charts) THEN [calls |-> calls, threw |-> FALSE]
            ELSE
            LET chart == charts[i] IN
            IF String(chart.id) = filterKey THEN ForEach(i + 1, calls)
            ELSE IF "filterImmuneSlices" \notin DOMAIN metadata
            THEN [calls |-> calls, threw |-> TRUE]
            ELSE IF Includes(metadata.filterImmuneSlices, chart.id)
            THEN ForEach(i + 1, calls)
            ELSE IF "filterImmuneSliceFields" \notin DOMAIN metadata
            THEN [calls |-> calls, threw |-> TRUE]
            ELSE
            LET filterImmuneSliceFields == metadata.filterImmuneSliceFields
                filterImmuneSliceFieldsNames ==
                    IF String(chart.id) \in DOMAIN filterImmuneSliceFields
                    THEN filterImmuneSliceFields[String(chart.id)]
                    ELSE <<>>
            IN  IF HasFilterableField(currentFilteredNames,
                                      filterImmuneSliceFieldsNames)
                THEN ForEach(i + 1, Append(calls, <<TRUE, chart.id>>))
                ELSE ForEach(i + 1, calls)
    IN  ForEach(1, <<>>)

\* The forEach of componentDidUpdate: the last key of the current filters
\* that was added or changed, null when there is none
ChangedFilterKey(applied, filters) ==
    LET currFilterKeys == ObjectKeys(filters)
        RECURSIVE ForEach(_, _)
        ForEach(i, changedFilterKey) ==
            IF i > Len(currFilterKeys) THEN changedFilterKey
            ELSE
            LET key == currFilterKeys[i] IN
            IF \/ key \notin DOMAIN applied
               \/ ~areObjectsEqual(applied[key], filters[key])
            THEN ForEach(i + 1, key)
            ELSE ForEach(i + 1, changedFilterKey)
    IN  ForEach(1, Null)

\* The guard of line 123: not in edit mode, and the JSON texts differ
\* (variant: !editMode left out)
FiltersChangedIgnoringEditMode(editMode, applied, filters) ==
    safeStringify(applied) # safeStringify(filters)
FiltersChanged(editMode, applied, filters) ==
    /\ ~editMode
    /\ safeStringify(applied) # safeStringify(filters)

\* The guard of lines 139-142: a key was added or changed, or the number of
\* keys differs
\* (variants: the comparison of line 141 left out; the guard left out; the
\* test of line 140 left out)
ShouldRefreshOnlyChangedKey(changedFilterKey, currFilterKeys, appliedFilterKeys) ==
    Truthy(changedFilterKey)
ShouldRefreshAlways(changedFilterKey, currFilterKeys, appliedFilterKeys) ==
    TRUE
ShouldRefreshOnlyCount(changedFilterKey, currFilterKeys, appliedFilterKeys) ==
    Len(currFilterKeys) # Len(appliedFilterKeys)
ShouldRefresh(changedFilterKey, currFilterKeys, appliedFilterKeys) ==
    \/ Truthy(changedFilterKey)
    \/ Len(currFilterKeys) # Len(appliedFilterKeys)

\* Lines 120-146 of componentDidUpdate: the new appliedFilters, the
\* triggerQuery calls made, whether refreshExcept ran, with which key, and
\* whether it threw
\* (variant: refreshExcept called inside the forEach, once per changed key)
ApplyFiltersPerKey(thisProps, applied) ==
    LET filters == thisProps.filters
        currFilterKeys == ObjectKeys(filters)
        Changed(key) ==
            \/ key \notin DOMAIN applied
            \/ ~areObjectsEqual(applied[key], filters[key])
        changedKeys == SelectSeq(currFilterKeys, Changed)
        RECURSIVE ForEach(_, _)
        ForEach(i, calls) ==
            IF i > Len(changedKeys) THEN calls
            ELSE ForEach(i + 1,
                         calls \o refreshExcept(thisProps, changedKeys[i]).calls)
        refresh ==
            /\ FiltersChanged(thisProps.dashboardState.editMode, applied, filters)
            /\ ShouldRefresh(ChangedFilterKey(applied, filters), currFilterKeys,
                             ObjectKeys(applied))
    IN  [appliedFilters |-> IF refresh THEN filters ELSE applied,
         calls |-> IF ~refresh THEN <<>>
                   ELSE IF Len(changedKeys) = 0
                   THEN refreshExcept(thisProps, Null).calls
                   ELSE ForEach(1, <<>>),
         threw |-> FALSE, refreshed |-> refresh,
         key |-> IF refresh THEN ChangedFilterKey(applied, filters) ELSE Null]
\* (variant: the assignment of line 144 left out)
ApplyFiltersNoRecord(thisProps, applied) ==
    LET filters == thisProps.filters
        changedFilterKey == ChangedFilterKey(applied, filters)
        refresh ==
            /\ FiltersChanged(thisProps.dashboardState.editMode, applied, filters)
            /\ ShouldRefresh(changedFilterKey, ObjectKeys(filters),
                             ObjectKeys(applied))
        r == refreshExcept(thisProps, changedFilterKey)
    IN  IF ~refresh
        THEN [appliedFilters |-> applied, calls |-> <<>>, threw |-> FALSE,
              refreshed |-> FALSE, key |-> Null]
        ELSE [appliedFilters |-> applied,
              calls |-> r.calls, threw |-> r.threw,
              refreshed |-> TRUE, key |-> changedFilterKey]
ApplyFilters(thisProps, applied) ==
    LET filters == thisProps.filters
        changedFilterKey == ChangedFilterKey(applied, filters)
        currFilterKeys == ObjectKeys(filters)
        appliedFilterKeys == ObjectKeys(applied)
        refresh ==
            /\ FiltersChanged(thisProps.dashboardState.editMode, applied, filters)
            /\ ShouldRefresh(changedFilterKey, currFilterKeys, appliedFilterKeys)
        r == refreshExcept(thisProps, changedFilterKey)
    IN  IF ~refresh
        THEN [appliedFilters |-> applied, calls |-> <<>>, threw |-> FALSE,
              refreshed |-> FALSE, key |-> Null]
        ELSE [appliedFilters |-> IF r.threw THEN applied ELSE filters,
              calls |-> r.calls, threw |-> r.threw,
              refreshed |-> TRUE, key |-> changedFilterKey]

\* componentDidUpdate: ApplyFilters, then the unload guard (lines 148-152),
\* which a throw in refreshExcept skips
\* (variant: this.appliedFilters = filters moved out of the branch of line
\* 123, to the end of the filter evaluation)
componentDidUpdateRecordsAlways(thisProps, applied, ls) ==
    LET f == ApplyFilters(thisProps, applied)
    IN  [appliedFilters |-> IF f.threw THEN applied ELSE thisProps.filters,
         listeners |-> IF f.threw THEN ls
                       ELSE onBeforeUnload(ls, thisProps.dashboardState.hasUnsavedChanges),
         calls |-> f.calls, threw |-> f.threw,
         refreshed |-> f.refreshed, key |-> f.key]
componentDidUpdate(thisProps, applied, ls) ==
    LET f == ApplyFilters(thisProps, applied)
    IN  [appliedFilters |-> f.appliedFilters,
         listeners |-> IF f.threw THEN ls
                       ELSE onBeforeUnload(ls, thisProps.dashboardState.hasUnsavedChanges),
         calls |-> f.calls, threw |-> f.threw,
         refreshed |-> f.refreshed, key |-> f.key]

\* componentDidMount: the logEvent call it adds
\* (variant: the call made twice)
componentDidMountTwice(log) ==
    Append(Append(log, LOG_ACTIONS_MOUNT_DASHBOARD), LOG_ACTIONS_MOUNT_DASHBOARD)
componentDidMount(log) == Append(log, LOG_ACTIONS_MOUNT_DASHBOARD)

----------------------------------------------------------------------------
(* The values the props are drawn from *)

EmptyObject == <<>>

IsInjective(f) == \A a, b \in DOMAIN f : f[a] = f[b] => a = b

\* Sequences of distinct elements of S, at most n long
DistinctSeqs(S, n) ==
    {s \in UNION {[1..k -> S] : k \in 0..n} : IsInjective(s)}

\* Layouts: at most MaxNodes nodes, no chart in two nodes
Layouts ==
    LET Maps == UNION {[N -> ChartIds] : N \in SUBSET NodeIds}
    IN  {[n \in DOMAIN m |-> LayoutNode(n, m[n])] : m \in {x \in Maps : IsInjective(x)}}

\* Filter objects: distinct field names, in any insertion order
FilterObjects ==
    {s \in UNION {[1..k -> [name : Fields, values : ValueLists]] :
                    k \in 0..Cardinality(Fields)} : IsInjective(FieldNames(s))}

FilterKeys == {String(n) : n \in FilterKeyNumbers}

\* Filters over the given keys
FiltersOver(keys) == UNION {[K -> FilterObjects] : K \in SUBSET keys}

FilterStates == FiltersOver(FilterKeys)

\* Filters on the one field "region" whose selected values vary
SelectedValueLists == {<<"US">>, <<"FR">>, <<"US", "FR">>}

ValueFilterObjects == {<<[name |-> "region", values |-> v]>> : v \in SelectedValueLists}

ValueFilterStates == UNION {[K -> ValueFilterObjects] : K \in SUBSET FilterKeys}

\* Filters with at most one key
SingleFilterStates == UNION {FiltersOver({k}) : k \in FilterKeys}

AllCharts == [k \in {String(c) : c \in ChartIds} |-> [id |-> ArrayIndex(k)]]

\* filterImmuneSlices: at most MaxImmune chart ids
ImmuneSlices == DistinctSeqs(ChartIds, MaxImmune)

\* filterImmuneSliceFields: no entry, or the entry of one chart
ImmuneFieldLists == {<<>>, <<"region">>, <<"country">>, <<"region", "country">>}

ImmuneSliceFields ==
    {EmptyObject} \cup
    {[k \in {String(c)} |-> names] : c \in ChartIds, names \in ImmuneFieldLists}

\* Metadata that holds both immunity collections
Metadatas ==
    [filterImmuneSlices : ImmuneSlices, filterImmuneSliceFields : ImmuneSliceFields]

\* Metadata that lacks one of them, or both
PartialMetadatas ==
    [filterImmuneSlices : ImmuneSlices] \cup
    [filterImmuneSliceFields : ImmuneSliceFields] \cup {EmptyObject}

\* The scenario of the specification: charts 1, 2, 3, chart 3 immune, chart 2
\* immune to "region", filter "10" on "region"
ScenarioMetadata ==
    [filterImmuneSlices |-> <<3>>,
     filterImmuneSliceFields |-> [k \in {"2"} |-> <<"region">>]]

ScenarioFilters == [k \in {"10"} |-> <<[name |-> "region", values |-> <<"US">>]>>]

----------------------------------------------------------------------------
(* The component's life *)

\* History kept for the properties: structural equality of two filter
\* states (the properties of a filter object, whatever their order), and
\* whether a step started in edit mode with filters that differ from the
\* baseline
PropertySet(fobj) == {<<fobj[i].name, fobj[i].values>> : i \in DOMAIN fobj}

StructurallyEqual(a, b) ==
    /\ DOMAIN a = DOMAIN b
    /\ \A k \in DOMAIN a : PropertySet(a[k]) = PropertySet(b[k])

\* Filters that differ from the baseline while the dashboard is in edit mode
FiltersPending ==
    /\ props.dashboardState.editMode
    /\ ~StructurallyEqual(props.filters, appliedFilters)

NoStep(op) ==
    [op |-> op, layout |-> props.layout, appliedFilters |-> appliedFilters,
     listeners |-> listeners, editMode |-> props.dashboardState.editMode,
     pending |-> FiltersPending, refreshed |-> FALSE, key |-> Null]

\* The state after the constructor, for props drawn from the given sets
InitWith(layouts, filterStates, metadatas, unsaved) ==
    /\ props \in [layout : layouts,
                  filters : filterStates,
                  dashboardState : [editMode : BOOLEAN, hasUnsavedChanges : unsaved],
                  dashboardInfo : [metadata : metadatas],
                  charts : {AllCharts}]
    /\ appliedFilters = EmptyObject
    /\ mounted = FALSE
    /\ crashed = FALSE
    /\ listeners = <<>>
    /\ logEvents = <<>>
    /\ attached = <<>>
    /\ detached = <<>>
    /\ queries = <<>>
    /\ last = [op |-> "constructor", layout |-> props.layout,
               appliedFilters |-> EmptyObject, listeners |-> <<>>,
               editMode |-> props.dashboardState.editMode,
               pending |-> FALSE, refreshed |-> FALSE, key |-> Null]

\* componentDidMount
Mount ==
    /\ ~mounted
    /\ mounted' = TRUE
    /\ logEvents' = componentDidMount(logEvents)
    /\ attached' = <<>>
    /\ detached' = <<>>
    /\ queries' = <<>>
    /\ last' = NoStep("mount")
    /\ UNCHANGED <<crashed, props, appliedFilters, listeners>>

\* A props update: componentWillReceiveProps(nextProps), then the new props
\* are committed and componentDidUpdate runs.  After a throw the host
\* unmounts the component, which receives no further update.
Update(nextProps) ==
    /\ mounted
    /\ ~crashed
    /\ \E diff \in {componentWillReceiveProps(props, nextProps)},
          upd \in {componentDidUpdate(nextProps, appliedFilters, listeners)} :
           /\ props' = nextProps
           /\ attached' = diff.added
           /\ detached' = diff.removed
           /\ appliedFilters' = upd.appliedFilters
           /\ listeners' = upd.listeners
           /\ queries' = upd.calls
           /\ crashed' = upd.threw
           /\ last' = [op |-> "update", layout |-> props.layout,
                       appliedFilters |-> appliedFilters,
                       listeners |-> listeners,
                       editMode |-> props.dashboardState.editMode,
                       pending |-> FiltersPending,
                       refreshed |-> upd.refreshed, key |-> upd.key]
    /\ UNCHANGED <<mounted, logEvents>>

\* The parent renders again with the very same props: the component (a
\* PureComponent) receives them and does not update
Rerender ==
    /\ mounted
    /\ ~crashed
    /\ \E diff \in {componentWillReceiveProps(props, props)} :
           /\ attached' = diff.added
           /\ detached' = diff.removed
    /\ queries' = <<>>
    /\ last' = NoStep("rerender")
    /\ UNCHANGED <<mounted, crashed, props, appliedFilters, listeners, logEvents>>

----------------------------------------------------------------------------
(* Specifications: the same component under different ranges of props *)

NoImmunity == [filterImmuneSlices |-> <<>>, filterImmuneSliceFields |-> EmptyObject]

\* Spec: any filters and edit mode in every update
Init == InitWith({EmptyObject}, FilterStates, {ScenarioMetadata, NoImmunity}, {FALSE})

Next ==
    \/ Mount
    \/ Rerender
    \/ \E f \in FilterStates, e \in BOOLEAN :
          Update([props EXCEPT !.filters = f, !.dashboardState.editMode = e])

Spec == Init /\ [][Next]_vars

\* SpecRefresh: any metadata that holds both collections, filters with at
\* most one key
InitRefresh == InitWith({EmptyObject}, SingleFilterStates, Metadatas, {FALSE})

NextRefresh ==
    \/ Mount
    \/ Rerender
    \/ \E f \in SingleFilterStates :
          Update([props EXCEPT !.filters = f, !.dashboardState.editMode = FALSE])

SpecRefresh == InitRefresh /\ [][NextRefresh]_vars

\* SpecMissingMetadata: as SpecRefresh, with metadata that lacks a collection
InitMissingMetadata ==
    InitWith({EmptyObject}, SingleFilterStates, PartialMetadatas, {FALSE})

SpecMissingMetadata == InitMissingMetadata /\ [][NextRefresh]_vars

\* SpecValues: as Spec, with filters whose selected values vary
InitValues ==
    InitWith({EmptyObject}, ValueFilterStates, {ScenarioMetadata, NoImmunity}, {FALSE})

NextValues ==
    \/ Mount
    \/ Rerender
    \/ \E f \in ValueFilterStates, e \in BOOLEAN :
          Update([props EXCEPT !.filters = f, !.dashboardState.editMode = e])

SpecValues == InitValues /\ [][NextValues]_vars

\* SpecLayout: any layout and unsaved-changes flag in every update; the
\* filters are those the component was constructed with
LayoutFilterStates == {EmptyObject, ScenarioFilters}

InitLayout == InitWith(Layouts, LayoutFilterStates, {ScenarioMetadata}, BOOLEAN)

NextLayout ==
    \/ Mount
    \/ Rerender
    \/ \E l \in Layouts, u \in BOOLEAN :
          Update([props EXCEPT !.layout = l, !.dashboardState.hasUnsavedChanges = u])

SpecLayout == InitLayout /\ [][NextLayout]_vars

----------------------------------------------------------------------------
(* Vocabulary of the properties *)

DidUpdate == last.op = "update"

Metadata == props.dashboardInfo.metadata

EditMode == props.dashboardState.editMode

\* The number of triggerQuery(true, c) calls of the last step
QueryCount(c) == Cardinality({i \in DOMAIN queries : queries[i] = <<TRUE, c>>})

Requeried(c) == QueryCount(c) > 0

\* The immunity collections of a metadata, a missing one read as empty
ImmuneSlicesOf(m) ==
    IF "filterImmuneSlices" \in DOMAIN m THEN Range(m.filterImmuneSlices) ELSE {}

ImmuneFieldsOf(m, c) ==
    IF /\ "filterImmuneSliceFields" \in DOMAIN m
       /\ String(c) \in DOMAIN m.filterImmuneSliceFields
    THEN Range(m.filterImmuneSliceFields[String(c)])
    ELSE {}

\* The field names of the changed key in the current filters
ChangedFieldNames(key) ==
    IF key \in DOMAIN props.filters
    THEN {props.filters[key][i].name : i \in DOMAIN props.filters[key]}
    ELSE {}

\* The rule of refreshExcept for chart c and changed key
ExpectedRequery(c, key) ==
    /\ String(c) # key
    /\ c \notin ImmuneSlicesOf(Metadata)
    /\ \/ ChangedFieldNames(key) = {}
       \/ ChangedFieldNames(key) \ ImmuneFieldsOf(Metadata, c) # {}

ChartsOf(layout) == {layout[n].meta.chartId : n \in DOMAIN layout}

NodeOf(layout, c) == layout[CHOOSE n \in DOMAIN layout : layout[n].meta.chartId = c]

\* The keys of the current filters that are new or changed against the
\* baseline the last step started from
ChangedKeys ==
    {k \in DOMAIN props.filters :
        \/ k \notin DOMAIN last.appliedFilters
        \/ PropertySet(props.filters[k]) # PropertySet(last.appliedFilters[k])}

----------------------------------------------------------------------------
(* Properties *)

IsScenario ==
    /\ last.refreshed
    /\ Metadata = ScenarioMetadata
    /\ last.appliedFilters = EmptyObject
    /\ props.filters = ScenarioFilters

\* C1: when refreshExcept runs, a chart is re-queried if and only if its id
\* (as a string) is not the changed filter key, its id is not in
\* filterImmuneSlices, and the changed key has no field names in the current
\* filters or one of them is not among the chart's immune fields (no entry:
\* none); in the scenario (charts 1, 2, 3, chart 3 immune, chart 2 immune to
\* "region", baseline {}, filters {10: {region: [US]}}) exactly chart 1 is.
C1_RefreshExceptRule ==
    /\ last.refreshed =>
          \A c \in ChartIds : Requeried(c) <=> ExpectedRequery(c, last.key)
    /\ IsScenario => queries = <<<<TRUE, 1>>>>

C1_Witness == IsScenario /\ last.key = "10" /\ queries = <<<<TRUE, 1>>>>

\* C2: every update emits exactly one attach event (id and node descriptor
\* of the next layout) per chart id in next but not in previous and exactly
\* one detach event per chart id in previous but not in next, also when ids
\* are added and removed in the same update.
C2_AttachAndDetachEveryChange ==
    DidUpdate =>
        /\ \A c \in ChartsOf(props.layout) \ ChartsOf(last.layout) :
              Cardinality({i \in DOMAIN attached :
                    attached[i] = <<c, NodeOf(props.layout, c)>>}) = 1
        /\ Len(attached) = Cardinality(ChartsOf(props.layout) \ ChartsOf(last.layout))
        /\ \A c \in ChartsOf(last.layout) \ ChartsOf(props.layout) :
              Cardinality({i \in DOMAIN detached : detached[i] = <<c>>}) = 1
        /\ Len(detached) = Cardinality(ChartsOf(last.layout) \ ChartsOf(props.layout))

\* C3: a componentDidUpdate that runs in edit mode issues no triggerQuery,
\* whatever the difference between the baseline and the current filters.
C3_EditModeNoQuery ==
    DidUpdate /\ EditMode => queries = <<>> /\ ~last.refreshed

C3_Witness ==
    /\ DidUpdate
    /\ EditMode
    /\ ChangedKeys # {}
    /\ DOMAIN last.appliedFilters \ DOMAIN props.filters # {}
    /\ queries = <<>>

\* C4: when the metadata lacks filterImmuneSlices or filterImmuneSliceFields,
\* a filter change outside edit mode does not fail: the missing collection
\* is read as empty and the charts are re-queried accordingly.
C4_MissingMetadataReadAsEmpty ==
    /\ DidUpdate
    /\ ~EditMode
    /\ ~StructurallyEqual(props.filters, last.appliedFilters)
    /\ DOMAIN Metadata # {"filterImmuneSlices", "filterImmuneSliceFields"}
    => /\ ~crashed
       /\ \A c \in ChartIds : Requeried(c) <=> ExpectedRequery(c, last.key)

\* An update outside edit mode that only removes filter keys
RemovalOnly ==
    /\ DidUpdate
    /\ ~EditMode
    /\ DOMAIN props.filters \subseteq DOMAIN last.appliedFilters
    /\ DOMAIN props.filters # DOMAIN last.appliedFilters
    /\ ChangedKeys = {}

\* C5: when an update outside edit mode only removes filter keys, every
\* chart whose id is not in filterImmuneSlices is re-queried, whatever its
\* filterImmuneSliceFields; with no immune chart, all charts are.
C5_RemovalRequeriesAllButImmune ==
    RemovalOnly =>
        \A c \in ChartIds :
            Requeried(c) <=> ~Includes(Metadata.filterImmuneSlices, c)

C5_Witness ==
    /\ RemovalOnly
    /\ Metadata = ScenarioMetadata
    /\ last.appliedFilters = ScenarioFilters
    /\ props.filters = EmptyObject
    /\ queries = <<<<TRUE, 1>>, <<TRUE, 2>>>>

\* C6: in one componentDidUpdate every chart receives at most one
\* triggerQuery call, also when several filter keys changed.
C6_AtMostOneQueryPerChart ==
    DidUpdate => \A c \in ChartIds : QueryCount(c) <= 1

C6_Witness ==
    /\ DidUpdate
    /\ Cardinality(ChangedKeys) >= 2
    /\ last.refreshed
    /\ \E c \in ChartIds : QueryCount(c) = 1

Registered == Includes(listeners, UnloadHandler)

\* C7: the beforeunload handler is registered if and only if
\* hasUnsavedChanges was true at the most recent componentDidUpdate (before
\* the first one it is not registered), and never more than once.
C7_UnloadGuard ==
    /\ Len(listeners) <= 1
    /\ Registered => props.dashboardState.hasUnsavedChanges
    /\ DidUpdate /\ props.dashboardState.hasUnsavedChanges => Registered

\* an update with hasUnsavedChanges false after one that registered the
\* handler
C7_Witness ==
    /\ DidUpdate
    /\ last.listeners = <<UnloadHandler>>
    /\ ~props.dashboardState.hasUnsavedChanges
    /\ listeners = <<>>

\* C8: a componentDidUpdate in which the current filters are structurally
\* equal to the baseline issues no triggerQuery.
C8_EqualFiltersNoQuery ==
    DidUpdate /\ StructurallyEqual(props.filters, last.appliedFilters) =>
        queries = <<>> /\ ~last.refreshed

\* equal filters whose JSON texts differ, outside edit mode
C8_Witness ==
    /\ DidUpdate
    /\ ~EditMode
    /\ StructurallyEqual(props.filters, last.appliedFilters)
    /\ props.filters # last.appliedFilters
    /\ queries = <<>>

\* C9: a props update whose previous and next layouts are the same layout
\* emits no addSliceToDashboard and no removeSliceFromDashboard call.
C9_SameLayoutNoEvents ==
    last.op \in {"update", "rerender"} /\ props.layout = last.layout =>
        attached = <<>> /\ detached = <<>>

C9_Witness ==
    /\ DidUpdate
    /\ props.layout = last.layout
    /\ Cardinality(ChartsOf(props.layout)) = MaxNodes
    /\ attached = <<>>
    /\ detached = <<>>

\* C10: logEvent is called exactly once, at mount, with the mount event
\* name, and by no later update.
C10_LogOnceAtMount ==
    logEvents = IF mounted THEN <<LOG_ACTIONS_MOUNT_DASHBOARD>> ELSE <<>>

C10_Witness ==
    /\ DidUpdate
    /\ last.refreshed
    /\ queries # <<>>
    /\ logEvents = <<LOG_ACTIONS_MOUNT_DASHBOARD>>

BothKeysFilters ==
    [k \in {"1", "10"} |->
        IF k = "1" THEN <<[name |-> "country", values |-> <<"US">>]>>
        ELSE <<[name |-> "region", values |-> <<"US">>]>>]

\* C12: when several filter keys are new or changed in one update, one of
\* them is the changed filter key of the whole refresh: the charts are
\* re-queried by the rule of refreshExcept for that key alone (only its
\* field names are compared, only the chart with its id is self-excluded),
\* so a chart immune to every field of that key is not re-queried, even
\* when it is not immune to a field of another changed key.
C12_OneChangedKeyDrivesRefresh ==
    DidUpdate /\ last.refreshed /\ Cardinality(ChangedKeys) >= 2 =>
        /\ last.key \in ChangedKeys
        /\ \A c \in ChartIds : Requeried(c) <=> ExpectedRequery(c, last.key)
        /\ \A c \in ChartIds :
              /\ ChangedFieldNames(last.key) # {}
              /\ ChangedFieldNames(last.key) \subseteq ImmuneFieldsOf(Metadata, c)
              => ~Requeried(c)

\* chart 2, immune to "region" and not to "country", is not re-queried when
\* keys "1" (country) and "10" (region) are added together; chart 1, the
\* chart of key "1", is
C12_Witness ==
    /\ DidUpdate
    /\ last.refreshed
    /\ Metadata = ScenarioMetadata
    /\ last.appliedFilters = EmptyObject
    /\ props.filters = BothKeysFilters
    /\ ChangedKeys = {"1", "10"}
    /\ last.key = "10"
    /\ "country" \notin ImmuneFieldsOf(Metadata, 2)
    /\ queries = <<<<TRUE, 1>>>>

\* An update that leaves edit mode
LeavesEditMode == DidUpdate /\ last.editMode /\ ~EditMode

\* C13: filter changes made in edit mode are deferred, not lost.  An update
\* in edit mode leaves the baseline unchanged; the update that leaves edit
\* mode with filters that differ structurally from that baseline runs the
\* refresh against it (the changed key is one of the keys that differ from
\* it, null when keys were only removed; the charts are re-queried by the
\* rule of refreshExcept) and makes the current filters the baseline; when
\* the filters are structurally equal to the baseline again on leaving, no
\* chart is re-queried.
C13_EditModeChangesDeferred ==
    /\ DidUpdate /\ EditMode => appliedFilters = last.appliedFilters
    /\ LeavesEditMode /\ ~StructurallyEqual(props.filters, last.appliedFilters) =>
          /\ last.refreshed
          /\ IF ChangedKeys = {} THEN last.key = Null ELSE last.key \in ChangedKeys
          /\ \A c \in ChartIds : Requeried(c) <=> ExpectedRequery(c, last.key)
          /\ appliedFilters = props.filters
    /\ LeavesEditMode /\ StructurallyEqual(props.filters, last.appliedFilters) =>
          /\ queries = <<>>
          /\ appliedFilters = last.appliedFilters

\* filters "10" on "region", changed in edit mode against a baseline with
\* another filter, are applied by the update that leaves edit mode
C13_Witness ==
    /\ LeavesEditMode
    /\ last.pending
    /\ Metadata = ScenarioMetadata
    /\ DOMAIN last.appliedFilters = {"1"}
    /\ props.filters = ScenarioFilters
    /\ last.refreshed
    /\ last.key = "10"
    /\ queries = <<<<TRUE, 1>>>>
    /\ appliedFilters = ScenarioFilters

\* The number of chart ids of a layout (every node holds one)
ChartIdCount(layout) == Cardinality(DOMAIN layout)

\* C14: a props update never emits both attach and detach events:
\* addSliceToDashboard is called only when the next layout has strictly
\* more chart ids than the previous one, removeSliceFromDashboard only when
\* it has strictly fewer, and with the same number of chart ids nothing is
\* emitted, even when the id sets differ.
C14_AttachOrDetachByCount ==
    last.op \in {"update", "rerender"} =>
        /\ attached = <<>> \/ detached = <<>>
        /\ attached # <<>> => ChartIdCount(props.layout) > ChartIdCount(last.layout)
        /\ detached # <<>> => ChartIdCount(props.layout) < ChartIdCount(last.layout)
        /\ ChartIdCount(props.layout) = ChartIdCount(last.layout) =>
              attached = <<>> /\ detached = <<>>

\* two charts replaced by two others, or by one other and one kept
C14_Witness ==
    /\ DidUpdate
    /\ ChartIdCount(props.layout) = MaxNodes
    /\ ChartIdCount(last.layout) = MaxNodes
    /\ ChartsOf(props.layout) \ ChartsOf(last.layout) # {}
    /\ ChartsOf(last.layout) \ ChartsOf(props.layout) # {}
    /\ attached = <<>>
    /\ detached = <<>>

\* C15: outside edit mode no filter change is missed: whenever
\* componentDidUpdate runs with editMode false and the current filters
\* differ structurally from the baseline (a key added, a key removed, a
\* key's value changed, or a key added and another removed in the same
\* update), refreshExcept is invoked in that update.
C15_NoFilterChangeMissed ==
    DidUpdate /\ ~EditMode /\ ~StructurallyEqual(props.filters, last.appliedFilters)
        => last.refreshed

\* a key added and another removed in the same update, the filters having
\* as many keys as the baseline
C15_Witness ==
    /\ DidUpdate
    /\ ~EditMode
    /\ DOMAIN last.appliedFilters = {"1"}
    /\ DOMAIN props.filters = {"10"}
    /\ last.refreshed
    /\ last.key = "10"

====
